---- MODULE Spec2Model ----
(***************************************************************************)
(* Model of cryptostore/data/influx.py: the InfluxDB store.  The component *)
(* holds one batch (self.data); write() encodes it to line protocol, cuts  *)
(* the lines into chunks and posts them one after the other;               *)
(* get_start_date() reads the first stored timestamp of a series.          *)
(*                                                                         *)
(* The methods are synchronous and run to completion, so each one is one   *)
(* action.  What a call did (the lines it encoded, the requests it issued, *)
(* how it ended) is kept in the observation variables call, agg, sent,     *)
(* result and ret, which every action rewrites.                            *)
(***************************************************************************)
EXTENDS Integers, Sequences, FiniteSets

VARIABLES data, call, agg, sent, result, ret

vars == <<data, call, agg, sent, result, ret>>

-----------------------------------------------------------------------------
(* Bounds of the model *)

\* longest batch enumerated record by record
MaxLen == 3

\* sub-nanosecond resolution of an original timestamp: a timestamp t stands
\* for the decimal t / (TsDen * 10^9) seconds
TsDen == 2

\* the chunk length write() passes to chunk(): 5000 in the source, scaled
\* down so that batches of a few records span several chunks
ChunkLen == 2

-----------------------------------------------------------------------------
(* cryptofeed.defines and the parameters of a call *)

TRADES == "trades"
L2_BOOK == "l2_book"
L3_BOOK == "l3_book"
TICKER == "ticker"
FUNDING == "funding"
OPEN_INTEREST == "open_interest"

\* a data type the store has no branch for
LIQUIDATIONS == "liquidations"

KnownTypes == {TRADES, L2_BOOK, L3_BOOK, TICKER, FUNDING, OPEN_INTEREST}

DataTypes == KnownTypes \cup {LIQUIDATIONS}

Exchanges == {"BITMEX"}

Pairs == {"BTC-USD"}


-----------------------------------------------------------------------------
(* Records: a dict, modelled as a function from the keys present to values *)

None == [some |-> FALSE, recs |-> <<>>]

Held(recs) == [some |-> TRUE, recs |-> recs]

\* Truthy without the test: write() goes on whatever it holds
TruthyAlways(d) == TRUE

\* bool(self.data): None and the empty list are both falsy
Truthy(d) == d.some /\ Len(d.recs) > 0

AllKeys == <<"timestamp", "side", "id", "amount", "price", "bid", "ask",
             "delta", "size", "order_id", "pair", "feed">>

\* keys whose values are Python floats in the enumerated records
FloatKeys == {"amount", "price", "bid", "ask", "size"}

\* a record carrying every key, with timestamp t and delta flag d
FullRecord(t, d) ==
  [timestamp |-> t, side |-> "buy", id |-> "t1", amount |-> 1, price |-> 10,
   bid |-> 9, ask |-> 11, delta |-> d, size |-> 1, order_id |-> "o1",
   pair |-> "BTC-USD", feed |-> "BITMEX"]

\* the dict e without key k
Without(e, k) == [x \in (DOMAIN e) \ {k} |-> e[x]]

Has(e, k) == k \in DOMAIN e

-----------------------------------------------------------------------------
(* The inputs of aggregate *)

\* records carrying every key; their timestamps are two that share a base
\* index timestamp and the first of the next nanosecond
WellFormed ==
  {FullRecord(0, FALSE), FullRecord(TsDen - 1, TRUE), FullRecord(TsDen, FALSE)}

SmallBatches == UNION {[1..n -> WellFormed] : n \in 0..MaxLen}

\* the keys some branch of write() reads without testing for them
ReadKeys == {"timestamp", "side", "amount", "price", "bid", "ask", "delta",
             "size", "order_id"}

\* batches of MaxLen equal records, the first or the last of which lacks
\* one key
MalformedBatches ==
  {[i \in 1..MaxLen |-> IF i = p THEN Without(FullRecord(0, FALSE), k)
                                 ELSE FullRecord(0, FALSE)] :
     <<p, k>> \in {1, MaxLen} \X ReadKeys}

\* a batch of n records with increasing timestamps
LongBatch(n) == [i \in 1..n |-> FullRecord(TsDen * i + (i % TsDen), i % 2 = 0)]

\* batch lengths that fill two chunks, and two chunks and a part of a third
LongLens == {2 * ChunkLen, 2 * ChunkLen + 1}

LongBatches == {LongBatch(n) : n \in LongLens}

Batches == SmallBatches \cup MalformedBatches \cup LongBatches

-----------------------------------------------------------------------------
(* Index timestamps and line protocol *)

\* int(x) of the Decimal x = n / d: truncation toward zero
IntTrunc(n, d) == IF n >= 0 THEN n \div d ELSE -((-n) \div d)

\* int(Decimal(entry["timestamp"]) * 1000000000)
IndexBase(timestamp) == IntTrunc(timestamp, TsDen)

\* Probe without the while loop: the base value is taken as it is
ProbeOff(ts, used_ts) == ts

\* while ts in used_ts: ts += 1
RECURSIVE Probe(_, _)
Probe(ts, used_ts) == IF ts \in used_ts THEN Probe(ts + 1, used_ts) ELSE ts

\* one field of a line: key=value, the value quoted or not
Field(entry, key, quoted) == <<key, entry[key], quoted>>

\* field `key` of a line sourced from entry[from]
FieldAs(entry, key, from, quoted) == <<key, entry[from], quoted>>

\* measurement,tags fields ts
Line(data_type, exchange, tags, fields, ts) ==
  [measurement |-> <<data_type, exchange>>, tags |-> tags, fields |-> fields,
   ts |-> ts]

\* the state of the loop over self.data: the set used_ts, the list agg and
\* the exception that ended the loop, if any
Raise(st, exc) == [st EXCEPT !.err = exc]

Emit(st, line) == [st EXCEPT !.agg = Append(@, line)]

LoopInit == [used_ts |-> {}, agg |-> <<>>, err |-> "none"]

\* one iteration of the TRADES loop: used_ts is a set, subscripting it raises
TradesStep(st, entry, data_type, exchange, pair) ==
  IF ~Has(entry, "timestamp") THEN Raise(st, "KeyError")
  ELSE Raise(st, "TypeError")

\* one iteration of the TICKER loop; the trailing ts += 1 acts on a local
\* that the next iteration overwrites
TickerStep(st, entry, data_type, exchange, pair) ==
  IF ~Has(entry, "timestamp") THEN Raise(st, "KeyError")
  ELSE LET ts == IndexBase(entry["timestamp"]) IN
       IF ~({"bid", "ask"} \subseteq DOMAIN entry) THEN Raise(st, "KeyError")
       ELSE Emit(st, Line(data_type, exchange, <<<<"pair", pair>>>>,
                          <<Field(entry, "bid", FALSE),
                            Field(entry, "ask", FALSE),
                            Field(entry, "timestamp", FALSE)>>, ts))

\* L2Step that skips a record lacking a key instead of raising
L2StepSkip(st, entry, data_type, exchange, pair) ==
  IF ~({"timestamp", "delta", "side", "price", "size"} \subseteq DOMAIN entry)
  THEN st
  ELSE LET ts == Probe(IndexBase(entry["timestamp"]), st.used_ts) IN
       Emit([st EXCEPT !.used_ts = @ \cup {ts}],
            Line(data_type, exchange,
                 <<<<"pair", pair>>, <<"delta", entry["delta"]>>>>,
                 <<Field(entry, "side", TRUE), Field(entry, "timestamp", FALSE),
                   Field(entry, "price", FALSE),
                   FieldAs(entry, "amount", "size", FALSE)>>, ts))

\* one iteration of the L2_BOOK loop
L2Step(st, entry, data_type, exchange, pair) ==
  IF ~Has(entry, "timestamp") THEN Raise(st, "KeyError")
  ELSE LET ts == Probe(IndexBase(entry["timestamp"]), st.used_ts)
           st1 == [st EXCEPT !.used_ts = @ \cup {ts}]
       IN IF ~({"delta", "side", "price", "size"} \subseteq DOMAIN entry)
          THEN Raise(st1, "KeyError")
          ELSE Emit(st1, Line(data_type, exchange,
                              <<<<"pair", pair>>, <<"delta", entry["delta"]>>>>,
                              <<Field(entry, "side", TRUE),
                                Field(entry, "timestamp", FALSE),
                                Field(entry, "price", FALSE),
                                FieldAs(entry, "amount", "size", FALSE)>>, ts))

\* one iteration of the L3_BOOK loop; the trailing ts += 1 acts on a local
\* that the next iteration overwrites
L3Step(st, entry, data_type, exchange, pair) ==
  IF ~Has(entry, "timestamp") THEN Raise(st, "KeyError")
  ELSE LET ts == Probe(IndexBase(entry["timestamp"]), st.used_ts)
           st1 == [st EXCEPT !.used_ts = @ \cup {ts}]
       IN IF ~({"delta", "side", "order_id", "price", "size"}
                 \subseteq DOMAIN entry)
          THEN Raise(st1, "KeyError")
          ELSE Emit(st1, Line(data_type, exchange,
                              <<<<"pair", pair>>, <<"delta", entry["delta"]>>>>,
                              <<Field(entry, "side", TRUE),
                                FieldAs(entry, "id", "order_id", TRUE),
                                Field(entry, "timestamp", FALSE),
                                Field(entry, "price", TRUE),
                                FieldAs(entry, "amount", "size", TRUE)>>, ts))

\* the keys of AllKeys from position i on that satisfy keep, in dict order
RECURSIVE KeysFrom(_, _, _)
KeysFrom(i, entry, floats) ==
  IF i > Len(AllKeys) THEN <<>>
  ELSE LET k == AllKeys[i] IN
       IF Has(entry, k) /\ k \notin {"pair", "feed"}
            /\ ((k \in FloatKeys) = floats)
       THEN <<Field(entry, k, ~floats)>> \o KeysFrom(i + 1, entry, floats)
       ELSE KeysFrom(i + 1, entry, floats)

\* one iteration of the FUNDING / OPEN_INTEREST loop: the float values
\* unquoted, then the others quoted, 'pair' and 'feed' left out
FundingStep(st, entry, data_type, exchange, pair) ==
  IF ~Has(entry, "timestamp") THEN Raise(st, "KeyError")
  ELSE LET ts == IndexBase(entry["timestamp"])
           formatted == KeysFrom(1, entry, TRUE) \o KeysFrom(1, entry, FALSE)
       IN Emit(st, Line(data_type, exchange, <<<<"pair", pair>>>>,
                        formatted, ts))

\* the body of `for entry in self.data` for the branch data_type selects;
\* an exception raised by an earlier iteration has left the loop
Step(st, entry, data_type, exchange, pair) ==
  IF st.err # "none" THEN st
  ELSE IF data_type = TRADES THEN TradesStep(st, entry, data_type, exchange, pair)
  ELSE IF data_type = TICKER THEN TickerStep(st, entry, data_type, exchange, pair)
  ELSE IF data_type = L2_BOOK THEN L2Step(st, entry, data_type, exchange, pair)
  ELSE IF data_type = L3_BOOK THEN L3Step(st, entry, data_type, exchange, pair)
  ELSE IF data_type \in {FUNDING, OPEN_INTEREST}
       THEN FundingStep(st, entry, data_type, exchange, pair)
  ELSE st

\* for entry in self.data, from entry i on
RECURSIVE Loop(_, _, _, _, _, _)
Loop(st, recs, i, data_type, exchange, pair) ==
  IF i > Len(recs) THEN st
  ELSE Loop(Step(st, recs[i], data_type, exchange, pair), recs, i + 1,
            data_type, exchange, pair)

\* Encode with a final else branch that encodes any other data type the way
\* funding is encoded
EncodeElse(d, data_type, exchange, pair) ==
  IF d.some
  THEN Loop(LoopInit, d.recs, 1,
            IF data_type \in KnownTypes THEN data_type ELSE FUNDING,
            exchange, pair)
  ELSE Raise(LoopInit, "TypeError")

\* lines 43-92 of write(): agg, or the exception that ended the encoding.
\* A branch that is taken iterates over self.data, which None does not allow.
Encode(d, data_type, exchange, pair) ==
  IF data_type \in KnownTypes
  THEN IF d.some THEN Loop(LoopInit, d.recs, 1, data_type, exchange, pair)
       ELSE Raise(LoopInit, "TypeError")
  ELSE LoopInit

-----------------------------------------------------------------------------
(* Chunks and requests *)

Min(a, b) == IF a <= b THEN a ELSE b

CeilDiv(n, d) == (n + d - 1) \div d

\* iterable[i : j] for 0 <= i <= j
Slice(iterable, i, j) == SubSeq(iterable, i + 1, Min(j, Len(iterable)))

\* range(0, n, length)
RangeStarts(n, length) == {i \in 0..(n - 1) : i % length = 0}

\* chunk(iterable, length): the slices at range(0, len(iterable), length)
chunk(iterable, length) ==
  [k \in 1..Cardinality(RangeStarts(Len(iterable), length)) |->
     Slice(iterable, (k - 1) * length, (k - 1) * length + length)]

NL == [newline |-> TRUE]

\* '\n'.join(c): the lines of c with a separator between neighbours
JoinNL(c) ==
  [j \in 1..(2 * Len(c) - 1) |-> IF j % 2 = 1 THEN c[(j + 1) \div 2] ELSE NL]

\* the outcomes of one request: requests.post raises, raise_for_status raises
FailKinds == {"ConnectionError", "HTTPError"}

\* PostLoop that notes a failed request and goes on with the next chunk
RECURSIVE PostLoopContinue(_, _, _, _, _)
PostLoopContinue(chunks, i, failAt, failKind, posted) ==
  IF i > Len(chunks)
  THEN [sent |-> posted,
        err |-> IF failAt \in 1..Len(chunks) THEN failKind ELSE "none"]
  ELSE PostLoopContinue(chunks, i + 1, failAt, failKind,
                        Append(posted, JoinNL(chunks[i])))

\* for c in chunk(agg, 5000): post, raise_for_status.  Request failAt fails
\* with failKind (failAt = 0: none fails); sent is the bodies of the requests
\* issued so far
RECURSIVE PostLoop(_, _, _, _, _)
PostLoop(chunks, i, failAt, failKind, posted) ==
  IF i > Len(chunks) THEN [sent |-> posted, err |-> "none"]
  ELSE LET c == JoinNL(chunks[i])
           posted1 == Append(posted, c)
       IN IF i = failAt THEN [sent |-> posted1, err |-> failKind]
          ELSE PostLoop(chunks, i + 1, failAt, failKind, posted1)

-----------------------------------------------------------------------------
(* get_start_date: the response of the query endpoint and its JSON body *)

Obj(m) == [t |-> "obj", v |-> m]

Arr(a) == [t |-> "arr", v |-> a]

Num(n) == [t |-> "num", v |-> n]

Null == [t |-> "null", v |-> 0]

\* Python's None as a return value, and the value of ret before any query
PyNone == [t |-> "None", v |-> 0]

NoRet == [t |-> "nocall", v |-> 0]

Val(x) == [exc |-> "none", val |-> x]

Exc(e) == [exc |-> e, val |-> Null]

\* x[key] for a string key
GetItem(x, key) ==
  IF x.exc # "none" THEN x
  ELSE IF x.val.t = "obj"
       THEN IF key \in DOMAIN x.val.v THEN Val(x.val.v[key])
            ELSE Exc("KeyError")
  ELSE Exc("TypeError")

\* x[i] for an integer i >= 0
GetIndex(x, i) ==
  IF x.exc # "none" THEN x
  ELSE IF x.val.t = "arr"
       THEN IF i < Len(x.val.v) THEN Val(x.val.v[i + 1])
            ELSE Exc("IndexError")
  ELSE IF x.val.t = "obj" THEN Exc("KeyError")
  ELSE Exc("TypeError")

\* a series of the result set with the given rows
Series(rows) ==
  Obj([results |-> Arr(<<Obj([statement_id |-> Num(0),
                             series |-> Arr(<<Obj([name |-> Num(0),
                                                  values |-> Arr(rows)])>>)])
                      >>)])

\* what requests.get and r.json() can produce
Responses ==
  { [transport |-> "ConnectionError", json |-> FALSE, body |-> Null],
    [transport |-> "ok", json |-> FALSE, body |-> Null],
    [transport |-> "ok", json |-> TRUE, body |-> Arr(<<>>)],
    [transport |-> "ok", json |-> TRUE, body |-> Obj([error |-> Num(0)])],
    [transport |-> "ok", json |-> TRUE, body |-> Obj([results |-> Arr(<<>>)])],
    [transport |-> "ok", json |-> TRUE,
     body |-> Obj([results |-> Arr(<<Obj([statement_id |-> Num(0)])>>)])],
    [transport |-> "ok", json |-> TRUE,
     body |-> Obj([results |-> Arr(<<Obj([series |-> Arr(<<>>)])>>)])],
    [transport |-> "ok", json |-> TRUE,
     body |-> Obj([results |->
                     Arr(<<Obj([series |-> Arr(<<Obj([name |-> Num(0)])>>)])
                         >>)])],
    [transport |-> "ok", json |-> TRUE, body |-> Series(<<>>)],
    [transport |-> "ok", json |-> TRUE, body |-> Series(<<Arr(<<Num(0)>>)>>)],
    [transport |-> "ok", json |-> TRUE,
     body |-> Series(<<Arr(<<Num(0), Null>>)>>)] }
    \cup { [transport |-> "ok", json |-> TRUE,
            body |-> Series(<<Arr(<<Num(0), Num(ts)>>), Arr(<<Num(1), Num(9)>>)>>)] :
           ts \in {0, TsDen} }

\* the classes `except Exception` catches
ExceptionClasses ==
  {"ConnectionError", "ValueError", "KeyError", "IndexError", "TypeError"}

\* Caught for a handler that names KeyError only
CaughtKeyError(exc) == exc = "KeyError"

Caught(exc) == exc \in ExceptionClasses

\* r.json()
Json(resp) ==
  IF resp.transport # "ok" THEN Exc(resp.transport)
  ELSE IF ~resp.json THEN Exc("ValueError")
  ELSE Val(resp.body)

\* r.json()['results'][0]['series'][0]['values'][0][1]
FirstCell(resp) ==
  GetIndex(GetIndex(GetItem(GetIndex(GetItem(GetIndex(GetItem(
    Json(resp), "results"), 0), "series"), 0), "values"), 0), 1)

\* a JSON scalar as the Python value json() decodes it to
Decoded(x) == IF x.t = "null" THEN PyNone ELSE x

-----------------------------------------------------------------------------
(* The store *)

NoResp == [transport |-> "none", json |-> FALSE, body |-> Null]

NoCall ==
  [op |-> "init", data_type |-> "none", held |-> None, failAt |-> 0,
   resp |-> NoResp]

Init ==
  /\ data = None
  /\ call = NoCall
  /\ agg = <<>>
  /\ sent = <<>>
  /\ result = "none"
  /\ ret = NoRet

\* aggregate(data)
aggregate(batch) ==
  /\ data' = Held(batch)
  /\ call' = [NoCall EXCEPT !.op = "aggregate"]
  /\ agg' = <<>>
  /\ sent' = <<>>
  /\ result' = "ok"
  /\ ret' = NoRet

\* write(exchange, data_type, pair, timestamp); timestamp is not read
write(exchange, data_type, pair, failAt, failKind) ==
  LET enc == Encode(data, data_type, exchange, pair)
      chunks == chunk(enc.agg, ChunkLen)
      post == PostLoop(chunks, 1, failAt, failKind, <<>>)
  IN /\ call' = [op |-> "write", data_type |-> data_type, held |-> data,
                  failAt |-> failAt, resp |-> NoResp]
     /\ ret' = NoRet
     /\ IF ~Truthy(data)
        THEN /\ failAt = 0
             /\ agg' = <<>>
             /\ sent' = <<>>
             /\ result' = "ok"
             /\ data' = data
        ELSE IF enc.err # "none"
        THEN /\ failAt = 0
             /\ agg' = enc.agg
             /\ sent' = <<>>
             /\ result' = enc.err
             /\ data' = data
        ELSE /\ failAt <= Len(chunks)
             /\ agg' = enc.agg
             /\ sent' = post.sent
             /\ result' = IF post.err = "none" THEN "ok" ELSE post.err
             /\ data' = IF post.err = "none" THEN None ELSE data

Aggregate == \E batch \in Batches : aggregate(batch)

Write ==
  \E exchange \in Exchanges, data_type \in DataTypes, pair \in Pairs,
     failAt \in 0..CeilDiv(Len(data.recs), ChunkLen), failKind \in FailKinds :
       /\ (failAt = 0 => failKind = "HTTPError")
       /\ write(exchange, data_type, pair, failAt, failKind)

\* get_start_date(exchange, data_type, pair)
get_start_date(resp) ==
  LET cell == FirstCell(resp) IN
  /\ call' = [NoCall EXCEPT !.op = "get_start_date", !.resp = resp]
  /\ agg' = <<>>
  /\ sent' = <<>>
  /\ IF cell.exc = "none"
     THEN result' = "ok" /\ ret' = Decoded(cell.val)
     ELSE IF Caught(cell.exc)
     THEN result' = "ok" /\ ret' = PyNone
     ELSE result' = cell.exc /\ ret' = NoRet
  /\ UNCHANGED data

GetStartDate == \E resp \in Responses : get_start_date(resp)

Next == Aggregate \/ Write \/ GetStartDate

Spec == Init /\ [][Next]_vars

-----------------------------------------------------------------------------
(* Vocabulary of the properties *)

\* d holds a batch of at least one record
HoldsRecords(d) == d.some /\ d.recs # <<>>

\* the last call was a write of one of `types` that held a non-empty batch
WroteAs(types) ==
  call.op = "write" /\ call.data_type \in types /\ HoldsRecords(call.held)

\* the records the last write held
HeldRecs == call.held.recs

\* floor(timestamp * 10^9) of a record
FloorBase(entry) == entry["timestamp"] \div TsDen

\* every record of recs carries every key of keys
AllHave(recs, keys) == \A i \in 1..Len(recs) : keys \subseteq DOMAIN recs[i]

\* the lines of a request body, split at the separators
LinesOf(body) == [i \in 1..((Len(body) + 1) \div 2) |-> body[2 * i - 1]]

\* the lines of the bodies of `bodies`, in the order sent
RECURSIVE Flatten(_)
Flatten(bodies) ==
  IF bodies = <<>> THEN <<>>
  ELSE LinesOf(Head(bodies)) \o Flatten(Tail(bodies))

\* what identifies a point of the store
PointKey(line) == <<line.measurement, line.tags, line.ts>>

\* the keys the kinds require
RequiredKeys(data_type) ==
  IF data_type = TRADES THEN {"timestamp", "side", "amount", "price"}
  ELSE IF data_type = TICKER THEN {"bid", "ask"}
  ELSE IF data_type = L2_BOOK THEN {"delta", "side", "price", "size"}
  ELSE IF data_type = L3_BOOK
       THEN {"delta", "side", "price", "size", "order_id"}
  ELSE {}

-----------------------------------------------------------------------------
(* C1 *)

\* C1: a write of trades whose records carry the trade fields does not end in
\* an error and encodes one line per trade; the index timestamps are pairwise
\* distinct, each at least floor(timestamp * 10^9), and in a batch of trades
\* that all share one timestamp the k-th (k = 0, 1, ...) gets base + k.
C1_TradesDistinctIndex ==
  (WroteAs({TRADES})
     /\ AllHave(HeldRecs, {"timestamp", "side", "amount", "price"}))
  => /\ result \notin {"TypeError", "KeyError"}
     /\ Len(agg) = Len(HeldRecs)
     /\ \A i \in 1..Len(agg) : agg[i].ts >= FloorBase(HeldRecs[i])
     /\ \A i, j \in 1..Len(agg) : i < j => agg[i].ts # agg[j].ts
     /\ (\A i \in 1..Len(agg) :
           HeldRecs[i]["timestamp"] = HeldRecs[1]["timestamp"])
        => \A i \in 1..Len(agg) : agg[i].ts = FloorBase(HeldRecs[1]) + (i - 1)

-----------------------------------------------------------------------------
(* C2 *)

\* C2: in a write of level-2 or level-3 book records, the index timestamps of
\* the encoded lines are pairwise distinct whatever the delta tags, line i
\* belongs to record i, its index timestamp is at least
\* floor(timestamp * 10^9) of that record and is the smallest such value no
\* earlier line of the batch has; unless a record lacks a key, every record
\* has its line.
C2_BookIndexUnique ==
  WroteAs({L2_BOOK, L3_BOOK})
  => /\ Len(agg) <= Len(HeldRecs)
     /\ (result # "KeyError" => Len(agg) = Len(HeldRecs))
     /\ \A i, j \in 1..Len(agg) : i < j => agg[i].ts # agg[j].ts
     /\ \A i \in 1..Len(agg) :
          /\ agg[i].fields[IF call.data_type = L2_BOOK THEN 2 ELSE 3]
               = <<"timestamp", HeldRecs[i]["timestamp"], FALSE>>
          /\ agg[i].ts >= FloorBase(HeldRecs[i])
          /\ \A v \in FloorBase(HeldRecs[i])..(agg[i].ts - 1) :
               \E j \in 1..(i - 1) : agg[j].ts = v

\* a book write in which a record was moved two steps past its base, and two
\* records of different delta flag met on one base
C2_Witness ==
  /\ WroteAs({L2_BOOK, L3_BOOK})
  /\ result = "ok"
  /\ \E i \in 1..Len(agg) : agg[i].ts >= FloorBase(HeldRecs[i]) + 2
  /\ \E i, j \in 1..Len(agg) :
       /\ i < j
       /\ FloorBase(HeldRecs[i]) = FloorBase(HeldRecs[j])
       /\ HeldRecs[i]["delta"] # HeldRecs[j]["delta"]

-----------------------------------------------------------------------------
(* C3 *)

\* C3: in a write of ticker, funding or open-interest records no two encoded
\* lines share measurement, tag set and index timestamp.
C3_SequentialDistinct ==
  WroteAs({TICKER, FUNDING, OPEN_INTEREST})
  => \A i, j \in 1..Len(agg) : i < j => PointKey(agg[i]) # PointKey(agg[j])

-----------------------------------------------------------------------------
(* C4 *)

\* C4: a write of a batch of one of the six kinds, whose records carry every
\* key and none of whose requests fails, issues ceil(n / ChunkLen) requests
\* for its n records; their bodies, in the order sent, hold one line per
\* record in input order, ChunkLen lines each except for a shorter last one.
C4_ChunksCarryBatch ==
  (WroteAs(KnownTypes) /\ AllHave(HeldRecs, ReadKeys) /\ call.failAt = 0)
  => /\ Len(sent) = CeilDiv(Len(HeldRecs), ChunkLen)
     /\ Flatten(sent) = agg
     /\ Len(agg) = Len(HeldRecs)
     /\ \A i \in 1..Len(agg) :
          \E f \in 1..Len(agg[i].fields) :
            agg[i].fields[f][1] = "timestamp"
              /\ agg[i].fields[f][2] = HeldRecs[i]["timestamp"]
     /\ \A k \in 1..Len(sent) :
          /\ Len(LinesOf(sent[k])) <= ChunkLen
          /\ k < Len(sent) => Len(LinesOf(sent[k])) = ChunkLen

\* C4, for every kind but trades: the same statement with the trades branch
\* left out holds, so the requests lose records only where the encoding of
\* trades fails.
C4_ChunksCarryBatchButTrades ==
  (WroteAs(KnownTypes \ {TRADES}) /\ AllHave(HeldRecs, ReadKeys)
     /\ call.failAt = 0)
  => /\ Len(sent) = CeilDiv(Len(HeldRecs), ChunkLen)
     /\ Flatten(sent) = agg
     /\ Len(agg) = Len(HeldRecs)
     /\ \A i \in 1..Len(agg) :
          \E f \in 1..Len(agg[i].fields) :
            agg[i].fields[f][1] = "timestamp"
              /\ agg[i].fields[f][2] = HeldRecs[i]["timestamp"]
     /\ \A k \in 1..Len(sent) :
          /\ Len(LinesOf(sent[k])) <= ChunkLen
          /\ k < Len(sent) => Len(LinesOf(sent[k])) = ChunkLen

-----------------------------------------------------------------------------
(* C5 *)

\* C5: when request k of a write fails, the write ends with that error after
\* exactly k requests: the bodies sent are chunks 1..k of the encoded lines,
\* each once and in order, and nothing of a later chunk is sent.
C5_FailureStopsWrite ==
  (call.op = "write" /\ call.failAt >= 1)
  => /\ result \in FailKinds
     /\ Len(sent) = call.failAt
     /\ \A k \in 1..Len(sent) :
          LinesOf(sent[k])
            = SubSeq(agg, (k - 1) * ChunkLen + 1, Min(k * ChunkLen, Len(agg)))

\* the second of three requests failed
C5_Witness ==
  /\ call.op = "write"
  /\ call.failAt = 2
  /\ Len(agg) > 2 * ChunkLen
  /\ Len(sent) = 2
  /\ result = "HTTPError"

-----------------------------------------------------------------------------
(* C6 *)

\* C6: a write made while the store holds no batch or an empty one returns
\* without a line encoded or a request issued, whatever the data type.
C6_NothingHeldNothingSent ==
  (call.op = "write" /\ ~HoldsRecords(call.held))
  => result = "ok" /\ agg = <<>> /\ sent = <<>>

\* a write of trades with no batch held
C6_Witness ==
  /\ call.op = "write"
  /\ ~call.held.some
  /\ call.data_type = TRADES
  /\ result = "ok"

-----------------------------------------------------------------------------
(* C7 *)

\* the response is JSON whose results[0].series[0].values[0] has a cell 1
HasFirstCell(resp) ==
  /\ resp.transport = "ok"
  /\ resp.json
  /\ resp.body.t = "obj"
  /\ "results" \in DOMAIN resp.body.v
  /\ LET results == resp.body.v["results"] IN
     /\ results.t = "arr"
     /\ Len(results.v) >= 1
     /\ results.v[1].t = "obj"
     /\ "series" \in DOMAIN results.v[1].v
     /\ LET series == results.v[1].v["series"] IN
        /\ series.t = "arr"
        /\ Len(series.v) >= 1
        /\ series.v[1].t = "obj"
        /\ "values" \in DOMAIN series.v[1].v
        /\ LET rows == series.v[1].v["values"] IN
           /\ rows.t = "arr"
           /\ Len(rows.v) >= 1
           /\ rows.v[1].t = "arr"
           /\ Len(rows.v[1].v) >= 2

TheFirstCell(resp) ==
  resp.body.v["results"].v[1].v["series"].v[1].v["values"].v[1].v[2]

\* C7: get_start_date always returns: the first value cell of the response
\* when the response holds one, None in every other case.
C7_StartDateNeverRaises ==
  call.op = "get_start_date"
  => /\ result = "ok"
     /\ ret = IF HasFirstCell(call.resp)
              THEN IF TheFirstCell(call.resp).t = "null" THEN PyNone
                   ELSE TheFirstCell(call.resp)
              ELSE PyNone

\* a query of a series without data: the result holds no series
C7_Witness ==
  /\ call.op = "get_start_date"
  /\ call.resp.json
  /\ call.resp.body.t = "obj"
  /\ "results" \in DOMAIN call.resp.body.v
  /\ Len(call.resp.body.v["results"].v) = 1
  /\ "series" \notin DOMAIN call.resp.body.v["results"].v[1].v
  /\ ret = PyNone

-----------------------------------------------------------------------------
(* C8 *)

\* C8: after a write that completed or that a failed request ended, the
\* store holds no batch that a following write would send.
C8_BatchDiscarded ==
  (call.op = "write" /\ result \in {"ok"} \cup FailKinds) => ~HoldsRecords(data)

-----------------------------------------------------------------------------
(* C9 *)

\* C9: a write of trades, tickers or book records in which a record lacks a
\* key its kind requires ends in an error and issues no request.
C9_MissingFieldAbortsBatch ==
  (WroteAs({TRADES, TICKER, L2_BOOK, L3_BOOK})
     /\ ~AllHave(HeldRecs, RequiredKeys(call.data_type)))
  => result \in {"KeyError", "TypeError"} /\ sent = <<>>

\* a full chunk of lines was encoded before the offending record was met,
\* and none was sent
C9_Witness ==
  /\ WroteAs({L2_BOOK})
  /\ ~AllHave(HeldRecs, RequiredKeys(L2_BOOK))
  /\ Len(agg) >= ChunkLen
  /\ result = "KeyError"
  /\ sent = <<>>

-----------------------------------------------------------------------------
(* C10 *)

\* C10: a write of a non-empty batch under a data type that is none of the
\* six encodes no line, issues no request, returns without an error and
\* leaves the store without a batch.
C10_UnknownTypeDropsBatch ==
  (call.op = "write" /\ call.data_type \notin KnownTypes /\ HoldsRecords(call.held))
  => agg = <<>> /\ sent = <<>> /\ result = "ok" /\ data = None

\* a batch of MaxLen records written under an unknown data type
C10_Witness ==
  /\ call.op = "write"
  /\ call.data_type = LIQUIDATIONS
  /\ Len(call.held.recs) = MaxLen
  /\ data = None

====
